---- MODULE Spec2Model ----
(***************************************************************************)
(* A model of the regex engine of lizhiquan/regex-rs: the recursive        *)
(* descent parser (src/src/parser.rs), the compiler that lowers the AST to *)
(* an automaton of states with ordered transitions (src/src/compiler.rs),  *)
(* and the backtracking matcher (src/src/matcher.rs), driven by calls of   *)
(* Regex::matches (src/src/lib.rs).                                        *)
(*                                                                         *)
(* Text and patterns are sequences of one-character strings.  Only ASCII   *)
(* text is modelled, so a character offset and a byte offset coincide.     *)
(***************************************************************************)
EXTENDS Integers, Sequences, FiniteSets, TLC

(***************************************************************************)
(* Characters: the std predicates the conditions use.                      *)
(***************************************************************************)
LowerCase ==
    << "a", "b", "c", "d", "e", "f", "g", "h", "i", "j", "k", "l", "m",
       "n", "o", "p", "q", "r", "s", "t", "u", "v", "w", "x", "y", "z" >>

UpperCase ==
    << "A", "B", "C", "D", "E", "F", "G", "H", "I", "J", "K", "L", "M",
       "N", "O", "P", "Q", "R", "S", "T", "U", "V", "W", "X", "Y", "Z" >>

DecimalDigits ==
    << "0", "1", "2", "3", "4", "5", "6", "7", "8", "9" >>

InSeq(c, s) == \E i \in 1..Len(s) : s[i] = c

IndexOf(c, s) == CHOOSE i \in 1..Len(s) : s[i] = c

is_ascii_digit(c) == InSeq(c, DecimalDigits)

is_ascii_alphanumeric(c) ==
    InSeq(c, DecimalDigits) \/ InSeq(c, LowerCase) \/ InSeq(c, UpperCase)

to_ascii_lowercase(c) ==
    IF InSeq(c, UpperCase) THEN LowerCase[IndexOf(c, UpperCase)] ELSE c

eq_ignore_ascii_case(a, b) == to_ascii_lowercase(a) = to_ascii_lowercase(b)

(***************************************************************************)
(* The parser.  Every method takes the pattern and the iterator position   *)
(* (pos, 1-based; pos > Len(pat) is the end) and returns a record with the *)
(* new position.  ok = FALSE is Err(..); some = FALSE is Ok(None).         *)
(***************************************************************************)
NoUnit == [type |-> "None"]

Char(c) == [type |-> "CharacterClass", class |-> [kind |-> "Char", c |-> c]]

is_match(pat, pos, c) == pos <= Len(pat) /\ pat[pos] = c

\* Parser::quantifier
quantifier(pat, pos) ==
    IF is_match(pat, pos, "*")
    THEN [some |-> TRUE, q |-> [kind |-> "ZeroOrMore"], pos |-> pos + 1]
    ELSE IF is_match(pat, pos, "+")
    THEN [some |-> TRUE, q |-> [kind |-> "OneOrMore"], pos |-> pos + 1]
    ELSE IF is_match(pat, pos, "?")
    THEN [some |-> TRUE, q |-> [kind |-> "ZeroOrOne"], pos |-> pos + 1]
    ELSE [some |-> FALSE, q |-> [kind |-> "None"], pos |-> pos]

\* Parser::character_group_item
character_group_item(pat, pos) ==
    IF /\ pos + 1 <= Len(pat)
       /\ pat[pos] = "\\"
       /\ ~is_ascii_digit(pat[pos + 1])
    THEN [some |-> TRUE,
          item |-> IF pat[pos + 1] = "d" THEN [kind |-> "Digit", c |-> ""]
                   ELSE IF pat[pos + 1] = "w" THEN [kind |-> "Word", c |-> ""]
                   ELSE [kind |-> "Char", c |-> pat[pos + 1]],
          pos |-> pos + 2]
    ELSE IF pos <= Len(pat) /\ pat[pos] \notin {"]", ")", "|", "\\"}
    THEN [some |-> TRUE, item |-> [kind |-> "Char", c |-> pat[pos]], pos |-> pos + 1]
    ELSE [some |-> FALSE, item |-> [kind |-> "None", c |-> ""], pos |-> pos]

RECURSIVE character_group_loop(_, _, _)

\* one iteration of the loop of Parser::character_group, r the item read
character_group_step(pat, items, r) ==
    IF ~r.some
    THEN [ok |-> FALSE, items |-> items, pos |-> r.pos]
    ELSE character_group_loop(pat, r.pos, Append(items, r.item))

\* the loop of Parser::character_group that collects the items up to ']'
character_group_loop(pat, pos, items) ==
    IF is_match(pat, pos, "]")
    THEN [ok |-> TRUE, items |-> items, pos |-> pos + 1]
    ELSE IF pos > Len(pat)
    THEN [ok |-> FALSE, items |-> items, pos |-> pos]
    ELSE character_group_step(pat, items, character_group_item(pat, pos))

\* the end of Parser::character_group, rest the result of its loop
character_group_unit(negative_modifier, rest) ==
    IF ~rest.ok
    THEN [ok |-> FALSE, unit |-> NoUnit, pos |-> rest.pos]
    ELSE [ok |-> TRUE,
          unit |-> [type |-> "CharacterClass",
                    class |-> [kind |-> "Group",
                               negative |-> negative_modifier,
                               items |-> rest.items]],
          pos |-> rest.pos]

\* Parser::character_group after its first item was read
character_group_first(pat, negative_modifier, first) ==
    IF ~first.some
    THEN [ok |-> FALSE, unit |-> NoUnit, pos |-> first.pos]
    ELSE character_group_unit(negative_modifier,
             character_group_loop(pat, first.pos, << first.item >>))

\* Parser::character_group, called after '[' was consumed
character_group(pat, pos) ==
    character_group_first(pat, is_match(pat, pos, "^"),
        character_group_item(pat, IF is_match(pat, pos, "^") THEN pos + 1 ELSE pos))

\* the map of Parser::character_class_item over the item read
character_class_of_item(x) ==
    IF ~x.some
    THEN [ok |-> TRUE, some |-> FALSE, unit |-> NoUnit, pos |-> x.pos]
    ELSE [ok |-> TRUE, some |-> TRUE,
          unit |-> IF x.item.kind = "Char" THEN Char(x.item.c)
                   ELSE [type |-> "CharacterClass", class |-> [kind |-> x.item.kind]],
          pos |-> x.pos]

\* self.character_group().map(Some)
SomeOf(g) == [ok |-> g.ok, some |-> g.ok, unit |-> g.unit, pos |-> g.pos]

\* Parser::character_class_item
character_class_item(pat, pos) ==
    IF is_match(pat, pos, ".")
    THEN [ok |-> TRUE, some |-> TRUE,
          unit |-> [type |-> "CharacterClass", class |-> [kind |-> "Wildcard"]],
          pos |-> pos + 1]
    ELSE IF is_match(pat, pos, "[")
    THEN SomeOf(character_group(pat, pos + 1))
    ELSE character_class_of_item(character_group_item(pat, pos))

\* Parser::character_class and Parser::group: wrap the unit in the quantifier
\* that follows it, if any
Quantified(unit, q) ==
    IF q.some
    THEN [type |-> "QuantifiedExpr", expr |-> unit, quantifier |-> q.q]
    ELSE unit

\* Parser::character_class after its item was read
character_class_quantify(pat, item) ==
    IF ~item.ok \/ ~item.some
    THEN item
    ELSE [ok |-> TRUE, some |-> TRUE,
          unit |-> Quantified(item.unit, quantifier(pat, item.pos)),
          pos |-> quantifier(pat, item.pos).pos]

\* Parser::character_class
character_class(pat, pos) ==
    character_class_quantify(pat, character_class_item(pat, pos))

RECURSIVE parse_digits(_, _, _, _)
\* the digit loop of Parser::backreference and digits.parse::<usize>()
parse_digits(pat, pos, n, value) ==
    IF pos <= Len(pat) /\ is_ascii_digit(pat[pos])
    THEN parse_digits(pat, pos + 1, n + 1,
                      10 * value + (IndexOf(pat[pos], DecimalDigits) - 1))
    ELSE [n |-> n, value |-> value, pos |-> pos]

\* the end of Parser::backreference, d the digits read
backreference_of(d) ==
    IF d.n = 0
    THEN [ok |-> FALSE, some |-> FALSE, unit |-> NoUnit, pos |-> d.pos]
    ELSE [ok |-> TRUE, some |-> TRUE,
          unit |-> [type |-> "Backreference", index |-> d.value],
          pos |-> d.pos]

\* Parser::backreference
backreference(pat, pos) ==
    IF \/ ~is_match(pat, pos, "\\")
       \/ (pos + 1 <= Len(pat) /\ ~is_ascii_digit(pat[pos + 1]))
    THEN [ok |-> TRUE, some |-> FALSE, unit |-> NoUnit, pos |-> pos]
    ELSE backreference_of(parse_digits(pat, pos + 1, 0, 0))

\* Parser::anchor
anchor(pat, pos) ==
    IF is_match(pat, pos, "$")
    THEN [ok |-> TRUE, some |-> TRUE,
          unit |-> [type |-> "Anchor", a |-> "EndOfString"], pos |-> pos + 1]
    ELSE [ok |-> TRUE, some |-> FALSE, unit |-> NoUnit, pos |-> pos]

WithGi(r, gi) ==
    [ok |-> r.ok, some |-> r.some, unit |-> r.unit, pos |-> r.pos, gi |-> gi]

\* Parser::subexpression_item when no group starts here: the item is a
\* character class if one is read (or fails), a backreference otherwise
class_or_backreference(pat, pos, gi, c) ==
    IF ~c.ok \/ c.some
    THEN WithGi(c, gi)
    ELSE WithGi(backreference(pat, pos), gi)

RECURSIVE expression(_, _, _)
RECURSIVE expression_loop(_, _, _, _)
RECURSIVE subexpression_loop(_, _, _, _)

\* Parser::group reading group_index after its expression was parsed
group_close_late(pat, index, e) ==
    IF ~e.ok \/ ~is_match(pat, e.pos, ")")
    THEN [ok |-> FALSE, some |-> FALSE, unit |-> NoUnit, pos |-> e.pos, gi |-> e.gi]
    ELSE [ok |-> TRUE, some |-> TRUE,
          unit |-> Quantified([type |-> "Group", index |-> e.gi - 1,
                               children |-> << e.unit >>],
                              quantifier(pat, e.pos + 1)),
          pos |-> quantifier(pat, e.pos + 1).pos,
          gi |-> e.gi]

\* Parser::group after its expression was parsed: consume(')') and the
\* quantifier
group_close(pat, index, e) ==
    IF ~e.ok \/ ~is_match(pat, e.pos, ")")
    THEN [ok |-> FALSE, some |-> FALSE, unit |-> NoUnit, pos |-> e.pos, gi |-> e.gi]
    ELSE [ok |-> TRUE, some |-> TRUE,
          unit |-> Quantified([type |-> "Group", index |-> index,
                               children |-> << e.unit >>],
                              quantifier(pat, e.pos + 1)),
          pos |-> quantifier(pat, e.pos + 1).pos,
          gi |-> e.gi]

\* Parser::group, called after '(' was consumed; gi is Parser::group_index
group(pat, pos, gi) == group_close(pat, gi, expression(pat, pos, gi + 1))

\* Parser::subexpression_item
subexpression_item(pat, pos, gi) ==
    IF is_match(pat, pos, "(")
    THEN group(pat, pos + 1, gi)
    ELSE IF anchor(pat, pos).some
    THEN WithGi(anchor(pat, pos), gi)
    ELSE class_or_backreference(pat, pos, gi, character_class(pat, pos))

\* one iteration of the while loop of Parser::subexpression, e the item read
subexpression_step(pat, exprs, e) ==
    IF ~e.ok
    THEN [ok |-> FALSE, exprs |-> exprs, pos |-> e.pos, gi |-> e.gi]
    ELSE IF ~e.some
    THEN [ok |-> TRUE, exprs |-> exprs, pos |-> e.pos, gi |-> e.gi]
    ELSE subexpression_loop(pat, e.pos, e.gi, Append(exprs, e.unit))

\* the while loop of Parser::subexpression
subexpression_loop(pat, pos, gi, exprs) ==
    subexpression_step(pat, exprs, subexpression_item(pat, pos, gi))

\* the end of Parser::subexpression and of Parser::parse: one unit stays as
\* it is, several become an ImplicitGroup
OneOrImplicitGroup(units) ==
    IF Len(units) = 1 THEN units[1]
    ELSE [type |-> "ImplicitGroup", children |-> units]

subexpression_unit(l) ==
    IF ~l.ok
    THEN [ok |-> FALSE, unit |-> NoUnit, pos |-> l.pos, gi |-> l.gi]
    ELSE [ok |-> TRUE, unit |-> OneOrImplicitGroup(l.exprs), pos |-> l.pos, gi |-> l.gi]

\* Parser::subexpression after its first item was read
subexpression_first(pat, item) ==
    IF ~item.ok \/ ~item.some
    THEN [ok |-> FALSE, unit |-> NoUnit, pos |-> item.pos, gi |-> item.gi]
    ELSE subexpression_unit(subexpression_loop(pat, item.pos, item.gi, << item.unit >>))

\* Parser::subexpression
subexpression(pat, pos, gi) ==
    subexpression_first(pat, subexpression_item(pat, pos, gi))

\* one iteration of the while loop of Parser::expression, e the alternative
expression_step(pat, exprs, e) ==
    IF ~e.ok
    THEN [ok |-> FALSE, exprs |-> exprs, pos |-> e.pos, gi |-> e.gi]
    ELSE expression_loop(pat, e.pos, e.gi, Append(exprs, e.unit))

\* the while loop of Parser::expression over '|'
expression_loop(pat, pos, gi, exprs) ==
    IF ~is_match(pat, pos, "|")
    THEN [ok |-> TRUE, exprs |-> exprs, pos |-> pos, gi |-> gi]
    ELSE expression_step(pat, exprs, expression(pat, pos + 1, gi))

expression_unit(l) ==
    IF ~l.ok
    THEN [ok |-> FALSE, unit |-> NoUnit, pos |-> l.pos, gi |-> l.gi]
    ELSE [ok |-> TRUE, unit |-> [type |-> "Alternation", children |-> l.exprs],
          pos |-> l.pos, gi |-> l.gi]

\* Parser::expression after its first subexpression was parsed
expression_first(pat, e) ==
    IF ~e.ok \/ ~is_match(pat, e.pos, "|")
    THEN e
    ELSE expression_unit(expression_loop(pat, e.pos, e.gi, << e.unit >>))

\* Parser::expression
expression(pat, pos, gi) == expression_first(pat, subexpression(pat, pos, gi))

\* the end of Parser::parse, e the expression parsed
parse_units(pat, caret, e) ==
    IF ~e.ok \/ e.pos <= Len(pat)
    THEN [ok |-> FALSE, unit |-> NoUnit]
    ELSE [ok |-> TRUE,
          unit |-> OneOrImplicitGroup(
                      IF caret
                      THEN << [type |-> "Anchor", a |-> "StartOfString"], e.unit >>
                      ELSE << e.unit >>)]

\* Parser::new and Parser::parse
parse(pat) ==
    parse_units(pat, is_match(pat, 1, "^"),
                expression(pat, IF is_match(pat, 1, "^") THEN 2 ELSE 1, 1))

(***************************************************************************)
(* The cursor and the conditions (compiler.rs).  A cursor is the record    *)
(* [index, captured_groups]; the text it reads is passed beside it.        *)
(* captured_groups maps a group index to the captured substring.           *)
(***************************************************************************)
EmptyMap == [k \in {} |-> 0]

\* HashMap::insert
MapInsert(m, k, v) == [j \in DOMAIN m \cup {k} |-> IF j = k THEN v ELSE m[j]]

\* Cursor::new
Cursor_new == [index |-> 0, captured_groups |-> EmptyMap]

\* Cursor::char: text.chars().nth(index); "" stands for None
HasChar(text, cursor) == cursor.index < Len(text)

CharAt(text, cursor) == text[cursor.index + 1]

\* Cursor::is_end
is_end(text, cursor) == cursor.index >= Len(text)

\* Cursor::advance
advance(cursor, n) == [cursor EXCEPT !.index = @ + n]

\* str::get(from..to): Some iff from <= to <= len
SliceExists(text, from, to) == from <= to /\ to <= Len(text)

Slice(text, from, to) == SubSeq(text, from + 1, to)

\* Cursor::add_captured_group (called only when the slice exists; see
\* try_match_enter for the unwrap of a missing slice)
add_captured_group(text, cursor, index, from, to) ==
    [cursor EXCEPT !.captured_groups = MapInsert(@, index, Slice(text, from, to))]

\* str::starts_with
starts_with(s, prefix) ==
    Len(prefix) <= Len(s) /\ SubSeq(s, 1, Len(prefix)) = prefix

Accepted(n) == [accepted |-> TRUE, n |-> n]

Rejected == [accepted |-> FALSE, n |-> 0]

Condition(name) ==
    [name |-> name, c |-> "", case_insensitive |-> FALSE, negative |-> FALSE,
     items |-> << >>, index |-> 0]

\* Condition::epsilon
epsilon == Condition("epsilon")

\* Condition::match_character
match_character(c, case_insensitive) ==
    [Condition("char") EXCEPT !.c = c, !.case_insensitive = case_insensitive]

\* Condition::match_digit
match_digit == Condition("digit")

\* Condition::match_word
match_word == Condition("word")

\* Condition::match_any
match_any == Condition("any")

\* Condition::match_start_of_string
match_start_of_string == Condition("start_of_string")

\* Condition::match_end_of_string
match_end_of_string == Condition("end_of_string")

\* Condition::match_character_group
match_character_group(negative, items, case_insensitive) ==
    [Condition("character_group") EXCEPT !.negative = negative, !.items = items,
                                         !.case_insensitive = case_insensitive]

\* Condition::match_captured_group
match_captured_group(index) == [Condition("captured_group") EXCEPT !.index = index]

\* the closure of match_character
eval_character(cond, text, cursor) ==
    IF ~HasChar(text, cursor) THEN Rejected
    ELSE LET ch == CharAt(text, cursor)
         IN  IF (cond.case_insensitive /\ eq_ignore_ascii_case(ch, cond.c)) \/ ch = cond.c
             THEN Accepted(1)
             ELSE Rejected

\* match_digit accepting the digit without consuming it
eval_digit_unconsumed(text, cursor) ==
    IF ~HasChar(text, cursor) THEN Rejected
    ELSE IF is_ascii_digit(CharAt(text, cursor)) THEN Accepted(0) ELSE Rejected

\* the closure of match_digit
eval_digit(text, cursor) ==
    IF ~HasChar(text, cursor) THEN Rejected
    ELSE IF is_ascii_digit(CharAt(text, cursor)) THEN Accepted(1) ELSE Rejected

\* the closure of match_word
eval_word(text, cursor) ==
    IF ~HasChar(text, cursor) THEN Rejected
    ELSE LET ch == CharAt(text, cursor)
         IN  IF is_ascii_alphanumeric(ch) \/ ch = "_" THEN Accepted(1) ELSE Rejected

\* the closure of match_any
eval_any(text, cursor) ==
    IF is_end(text, cursor) THEN Rejected ELSE Accepted(1)

\* the closure of match_start_of_string
eval_start_of_string(text, cursor) ==
    IF cursor.index = 0 THEN Accepted(0) ELSE Rejected

\* match_end_of_string accepting one character early
eval_end_of_string_early(text, cursor) ==
    IF cursor.index + 1 >= Len(text) THEN Accepted(0) ELSE Rejected

\* the closure of match_end_of_string
eval_end_of_string(text, cursor) ==
    IF is_end(text, cursor) THEN Accepted(0) ELSE Rejected

\* items.iter().any(..) of match_character_group
ItemMatches(item, ch, case_insensitive) ==
    IF item.kind = "Char"
    THEN IF case_insensitive THEN eq_ignore_ascii_case(item.c, ch) ELSE item.c = ch
    ELSE IF item.kind = "Digit" THEN is_ascii_digit(ch)
    ELSE is_ascii_alphanumeric(ch) \/ ch = "_"

\* match_character_group without lines 252-254, the negation
eval_character_group_unnegated(cond, text, cursor) ==
    IF ~HasChar(text, cursor) THEN Rejected
    ELSE IF \E i \in 1..Len(cond.items) :
                ItemMatches(cond.items[i], CharAt(text, cursor), cond.case_insensitive)
         THEN Accepted(1) ELSE Rejected

\* the closure of match_character_group
eval_character_group(cond, text, cursor) ==
    IF ~HasChar(text, cursor) THEN Rejected
    ELSE LET ch == CharAt(text, cursor)
             any == \E i \in 1..Len(cond.items) :
                        ItemMatches(cond.items[i], ch, cond.case_insensitive)
             result == IF cond.negative THEN ~any ELSE any
         IN  IF result THEN Accepted(1) ELSE Rejected

\* match_captured_group with a group that is not in the map read as the
\* empty string instead of the early return of line 269
eval_captured_group_unset_empty(cond, text, cursor) ==
    IF cond.index \notin DOMAIN cursor.captured_groups
    THEN IF cursor.index <= Len(text) THEN Accepted(0) ELSE Rejected
    ELSE LET g == cursor.captured_groups[cond.index]
         IN  IF /\ cursor.index <= Len(text)
                /\ starts_with(SubSeq(text, cursor.index + 1, Len(text)), g)
             THEN Accepted(Len(g))
             ELSE Rejected

\* the closure of match_captured_group
eval_captured_group(cond, text, cursor) ==
    IF cond.index \notin DOMAIN cursor.captured_groups THEN Rejected
    ELSE LET g == cursor.captured_groups[cond.index]
         IN  IF /\ cursor.index <= Len(text)
                /\ starts_with(SubSeq(text, cursor.index + 1, Len(text)), g)
             THEN Accepted(Len(g))
             ELSE Rejected

\* (transition.condition.evaluate)(cursor)
evaluate(cond, text, cursor) ==
    CASE cond.name = "epsilon" -> Accepted(0)
      [] cond.name = "char" -> eval_character(cond, text, cursor)
      [] cond.name = "digit" -> eval_digit(text, cursor)
      [] cond.name = "word" -> eval_word(text, cursor)
      [] cond.name = "any" -> eval_any(text, cursor)
      [] cond.name = "start_of_string" -> eval_start_of_string(text, cursor)
      [] cond.name = "end_of_string" -> eval_end_of_string(text, cursor)
      [] cond.name = "character_group" -> eval_character_group(cond, text, cursor)
      [] cond.name = "captured_group" -> eval_captured_group(cond, text, cursor)

(***************************************************************************)
(* The compiler.  The compilation state st threads the global COUNTER, the *)
(* transitions of the states made so far (state id -> ordered sequence of  *)
(* [condition, target]), Compiler::captured_groups and ok (FALSE after a   *)
(* panic).  A fragment (FSM) is [start, end], two state ids.               *)
(***************************************************************************)
Transition_new(condition, target) == [condition |-> condition, target |-> target]

\* Transition::epsilon
Transition_epsilon(target) == Transition_new(epsilon, target)

\* State::new: the id is COUNTER.fetch_add(1)
State_new(st) ==
    [id |-> st.counter,
     st |-> [st EXCEPT !.counter = @ + 1,
                       !.transitions = [j \in DOMAIN @ \cup {st.counter} |->
                                           IF j = st.counter THEN << >> ELSE @[j]]]]

\* state.borrow_mut().transitions.push(t)
push(st, id, t) == [st EXCEPT !.transitions[id] = Append(@, t)]

\* let start = State::new(); let end = State::new();
TwoStates_end(start, e) == [start |-> start, end |-> e.id, st |-> e.st]

TwoStates_start(s) == TwoStates_end(s.id, State_new(s.st))

TwoStates(st) == TwoStates_start(State_new(st))

FSM_wire(condition, p) ==
    [fsm |-> [start |-> p.start, end |-> p.end],
     st |-> push(p.st, p.start, Transition_new(condition, p.end))]

\* FSM::new
FSM_new(condition, st) == FSM_wire(condition, TwoStates(st))

NoFSM == [start |-> 0, end |-> 0]

\* a panic of the compiler
Panicked(st) == [fsm |-> NoFSM, st |-> [st EXCEPT !.ok = FALSE]]

RECURSIVE alternation_loop(_, _, _, _, _)
\* the for loop of alternation
alternation_loop(machines, i, start, end, st) ==
    IF i > Len(machines) THEN st
    ELSE alternation_loop(machines, i + 1, start, end,
             push(push(st, start, Transition_epsilon(machines[i].start)),
                  machines[i].end, Transition_epsilon(end)))

alternation_wire(machines, p) ==
    [fsm |-> [start |-> p.start, end |-> p.end],
     st |-> alternation_loop(machines, 1, p.start, p.end, p.st)]

alternation(machines, st) == alternation_wire(machines, TwoStates(st))

concat_pair(lhs, rhs, st) ==
    [fsm |-> [start |-> lhs.start, end |-> rhs.end],
     st |-> push(st, lhs.end, Transition_epsilon(rhs.start))]

RECURSIVE concat_reduce(_, _, _)
\* machines.into_iter().reduce(concat_pair), r the pair reduced so far
concat_reduce(machines, i, r) ==
    IF i > Len(machines) THEN r
    ELSE concat_reduce(machines, i + 1, concat_pair(r.fsm, machines[i], r.st))

concat(machines, st) ==
    IF Len(machines) = 0 THEN Panicked(st)
    ELSE concat_reduce(machines, 2, [fsm |-> machines[1], st |-> st])

zero_or_more_wire(machine, p) ==
    [fsm |-> [start |-> p.start, end |-> p.end],
     st |-> push(push(push(push(p.st,
                 p.start, Transition_epsilon(machine.start)),
                 p.start, Transition_epsilon(p.end)),
                 machine.end, Transition_epsilon(p.end)),
                 machine.end, Transition_epsilon(machine.start))]

zero_or_more(machine, st) == zero_or_more_wire(machine, TwoStates(st))

one_or_more_wire(machine, p) ==
    [fsm |-> [start |-> p.start, end |-> p.end],
     st |-> push(push(push(p.st,
                 p.start, Transition_epsilon(machine.start)),
                 machine.end, Transition_epsilon(p.end)),
                 machine.end, Transition_epsilon(machine.start))]

one_or_more(machine, st) == one_or_more_wire(machine, TwoStates(st))

\* zero_or_one without the two new states: the child's start gets an
\* epsilon to the child's end
zero_or_one_wire_shortcut(machine, p) ==
    [fsm |-> [start |-> machine.start, end |-> machine.end],
     st |-> push(p.st, machine.start, Transition_epsilon(machine.end))]

zero_or_one_wire(machine, p) ==
    [fsm |-> [start |-> p.start, end |-> p.end],
     st |-> push(push(push(p.st,
                 p.start, Transition_epsilon(machine.start)),
                 p.start, Transition_epsilon(p.end)),
                 machine.end, Transition_epsilon(p.end))]

zero_or_one(machine, st) == zero_or_one_wire(machine, TwoStates(st))

\* Compiler::match_case_insensitive, set by Compiler::compile
match_case_insensitive == TRUE

RECURSIVE compile_unit(_, _)
RECURSIVE compile_children(_, _, _, _)

compile_children_step(children, i, acc, r) ==
    compile_children(children, i + 1, Append(acc, r.fsm), r.st)

\* children.iter().map(|child| self.compile_unit(child)).collect()
compile_children(children, i, acc, st) ==
    IF i > Len(children) \/ ~st.ok THEN [fsms |-> acc, st |-> st]
    ELSE compile_children_step(children, i, acc, compile_unit(children[i], st))

\* the CharacterClass arm of Compiler::compile_unit
compile_character_class(c, st) ==
    CASE c.kind = "Char" -> FSM_new(match_character(c.c, match_case_insensitive), st)
      [] c.kind = "Digit" -> FSM_new(match_digit, st)
      [] c.kind = "Word" -> FSM_new(match_word, st)
      [] c.kind = "Wildcard" -> FSM_new(match_any, st)
      [] c.kind = "Group" ->
            FSM_new(match_character_group(c.negative, c.items, match_case_insensitive), st)

\* the Anchor arm of Compiler::compile_unit
compile_anchor(a, st) ==
    IF a = "StartOfString" THEN FSM_new(match_start_of_string, st)
    ELSE FSM_new(match_end_of_string, st)

\* the quantifier applied to the compiled child m
quantify(kind, m) ==
    IF ~m.st.ok THEN m
    ELSE CASE kind = "ZeroOrOne" -> zero_or_one(m.fsm, m.st)
           [] kind = "ZeroOrMore" -> zero_or_more(m.fsm, m.st)
           [] kind = "OneOrMore" -> one_or_more(m.fsm, m.st)

\* the QuantifiedExpr arm compiling {n} and {n,m} as if they were *
compile_quantified_downgraded(unit, st) ==
    quantify(IF unit.quantifier.kind \in {"ZeroOrOne", "ZeroOrMore", "OneOrMore"}
             THEN unit.quantifier.kind ELSE "ZeroOrMore",
             compile_unit(unit.expr, st))

\* the QuantifiedExpr arm of Compiler::compile_unit
compile_quantified(unit, st) ==
    IF unit.quantifier.kind \notin {"ZeroOrOne", "ZeroOrMore", "OneOrMore"}
    THEN Panicked(st)
    ELSE quantify(unit.quantifier.kind, compile_unit(unit.expr, st))

concat_children(cs) ==
    IF ~cs.st.ok THEN Panicked(cs.st) ELSE concat(cs.fsms, cs.st)

alternation_children(cs) ==
    IF ~cs.st.ok THEN Panicked(cs.st) ELSE alternation(cs.fsms, cs.st)

\* self.captured_groups.push(group)
push_group(index, r) ==
    IF ~r.st.ok THEN r
    ELSE [fsm |-> r.fsm,
          st |-> [r.st EXCEPT !.captured_groups =
                     Append(@, [index |-> index, start |-> r.fsm.start,
                                end |-> r.fsm.end])]]

compile_unit(unit, st) ==
    CASE unit.type = "ImplicitGroup" ->
            concat_children(compile_children(unit.children, 1, << >>, st))
      [] unit.type = "Group" ->
            push_group(unit.index,
                concat_children(compile_children(unit.children, 1, << >>, st)))
      [] unit.type = "Backreference" -> FSM_new(match_captured_group(unit.index), st)
      [] unit.type = "Alternation" ->
            alternation_children(compile_children(unit.children, 1, << >>, st))
      [] unit.type = "CharacterClass" -> compile_character_class(unit.class, st)
      [] unit.type = "Anchor" -> compile_anchor(unit.a, st)
      [] unit.type = "QuantifiedExpr" -> compile_quantified(unit, st)

CompiledMachine(r) ==
    [ok |-> r.st.ok, fsm |-> r.fsm, transitions |-> r.st.transitions,
     captured_groups |-> r.st.captured_groups, counter |-> r.st.counter]

\* Compiler::compile, with the value of COUNTER before (counter) and after
Compiler_compile(ast, counter) ==
    CompiledMachine(
        compile_unit(ast, [counter |-> counter, transitions |-> EmptyMap,
                           captured_groups |-> << >>, ok |-> TRUE]))

(***************************************************************************)
(* Matcher::new: the maps from a state id to the positions (in             *)
(* captured_groups, in order) of the groups that start or end there.       *)
(***************************************************************************)
RECURSIVE PositionsWhere(_, _, _, _)
PositionsWhere(groups, field, id, i) ==
    IF i > Len(groups) THEN << >>
    ELSE IF groups[i][field] = id
    THEN << i >> \o PositionsWhere(groups, field, id, i + 1)
    ELSE PositionsWhere(groups, field, id, i + 1)

Matcher_new(m) ==
    [cursor |-> Cursor_new,
     start_captured_groups |->
        [id \in {m.captured_groups[i].start : i \in 1..Len(m.captured_groups)} |->
            PositionsWhere(m.captured_groups, "start", id, 1)],
     end_captured_groups |->
        [id \in {m.captured_groups[i].end : i \in 1..Len(m.captured_groups)} |->
            PositionsWhere(m.captured_groups, "end", id, 1)]]

RECURSIVE InsertStarts(_, _, _, _, _)
\* matcher.rs 54-59: record the offset as the tentative start of each group
InsertStarts(groups, indices, i, starts, offset) ==
    IF i > Len(indices) THEN starts
    ELSE InsertStarts(groups, indices, i + 1,
                      MapInsert(starts, groups[indices[i]].index, offset), offset)

RECURSIVE FinalizeGroups(_, _, _, _, _, _)
\* matcher.rs 61-68: finalize each group that has a tentative start;
\* ok = FALSE when text.get(from..to) is None and unwrap panics
FinalizeGroups(text, groups, indices, i, starts, cursor) ==
    IF i > Len(indices) THEN [ok |-> TRUE, cursor |-> cursor]
    ELSE LET index == groups[indices[i]].index
         IN  IF index \notin DOMAIN starts
             THEN FinalizeGroups(text, groups, indices, i + 1, starts, cursor)
             ELSE IF ~SliceExists(text, starts[index], cursor.index)
             THEN [ok |-> FALSE, cursor |-> cursor]
             ELSE FinalizeGroups(text, groups, indices, i + 1, starts,
                      add_captured_group(text, cursor, index, starts[index],
                                         cursor.index))

(***************************************************************************)
(* The inputs: a run performs a sequence of calls of Regex::matches, each  *)
(* call a [pattern, text].                                                 *)
(***************************************************************************)
MaxTextLen == 3

StackLimit == 40

Strings(alphabet, n) == UNION {[1..k -> alphabet] : k \in 0..n}

\* a call of Regex::matches
Call(p, t) == [op |-> "matches", pattern |-> p, text |-> t, ast |-> NoUnit]

\* a call of Compiler::compile on an AST
CompileCall(ast) == [op |-> "compile", pattern |-> << >>, text |-> << >>, ast |-> ast]

\* a further call of Matcher::matches on the matcher of the call before
AgainCall(p, t) == [op |-> "again", pattern |-> p, text |-> t, ast |-> NoUnit]

\* patterns made only of literal characters, on texts in which a letter
\* also occurs in the other case
LiteralPatterns == Strings({"a", "b"}, 2) \ {<< >>}

LiteralSuites ==
    {<< Call(p, t) >> : p \in LiteralPatterns, t \in Strings({"a", "b", "A"}, MaxTextLen)}

\* patterns with anchors, and patterns that match the empty string
SearchPatterns ==
    { << "$" >>,
      << "^", "$" >>,
      << "^", "a" >>,
      << "^", "a", "b" >>,
      << "a", "$" >>,
      << "a", "b", "$" >>,
      << "^", "a", "$" >>,
      << "a", "*", "b", "$" >>,
      << "^", "b", "*", "a" >>,
      << "^", "a", "." >>,
      << "b", "?", "a", "$" >>,
      << "x", "*", "$" >>,
      << "a", "*" >>,
      << "a", "+" >> }

SearchSuites ==
    {<< Call(p, t) >> : p \in SearchPatterns, t \in Strings({"a", "b", "A"}, MaxTextLen)}

\* a repetition of an expression that matches the empty string, a
\* repetition of a group with alternatives of different lengths, and a
\* pattern that does not parse
NestedPatterns ==
    { << "(", "a", "*", ")", "*", "c" >>,
      << "(", "a", "b", "|", "a", ")", "*", "c" >>,
      << "a", "(" >> }

NestedSuites ==
    {<< Call(p, t) >> : p \in NestedPatterns, t \in Strings({"a", "b"}, MaxTextLen)}

\* character groups, on texts of letters in both cases, digits and others
GroupPatterns ==
    { << "[", "a", "b", "]" >>,
      << "[", "^", "a", "b", "]" >>,
      << "[", "a", "\\", "d", "]" >>,
      << "[", "^", "\\", "d", "]" >>,
      << "[", "\\", "w", "]" >>,
      << "[", "^", "\\", "w", "]" >> }

GroupSuites ==
    {<< Call(p, t) >> : p \in GroupPatterns, t \in Strings({"a", "B", "1", "-"}, MaxTextLen)}
        \cup { << Call(<< "[", "^", "x", "y", "z", "]" >>, << "a", "p", "p", "l", "e" >>) >>,
               << Call(<< "[", "^", "x", "y", "z", "]" >>, << "x", "y", "z" >>) >>,
               << Call(<< "[", "^", "a", "n", "b", "]" >>, << "b", "a", "n", "a", "n", "a" >>) >> }

\* (a) and \1 on the texts pre u " and " v
BackreferencePattern == << "(", "a", ")", " ", "a", "n", "d", " ", "\\", "1" >>

BackreferenceTexts ==
    {pre \o << u >> \o << " ", "a", "n", "d", " " >> \o << v >> :
        pre \in Strings({"a", "b"}, 1), u \in {"a", "A", "b"}, v \in {"a", "A", "b"}}

BackreferenceSuites == {<< Call(BackreferencePattern, t) >> : t \in BackreferenceTexts}

\* the same text under a X ? q, under a X q and under a q
OptionalCalls(a, X, q, t) ==
    << Call(a \o X \o << "?" >> \o q, t), Call(a \o X \o q, t), Call(a \o q, t) >>

OptionalSuites ==
    {OptionalCalls(<< "a" >>, X, q, t) :
        X \in {<< "b" >>, << "(", "b", ")" >>},
        q \in {<< >>, << "b" >>, << "$" >>, << "(", "c", "*", ")", "*", "b" >>},
        t \in Strings({"a", "b"}, MaxTextLen)}

RECURSIVE Repeat(_, _)
Repeat(X, n) == IF n = 0 THEN << >> ELSE X \o Repeat(X, n - 1)

\* the same text under p X + q and under p X q, p X X q, ... with up to
\* MaxTextLen occurrences of X
OneOrMoreCalls(p, X, q, t) ==
    << Call(p \o X \o << "+" >> \o q, t) >>
        \o [n \in 1..MaxTextLen |-> Call(p \o Repeat(X, n) \o q, t)]

OneOrMoreSuites ==
    {OneOrMoreCalls(<< >>, << "a" >>, << "b" >>, t) : t \in Strings({"a", "b"}, MaxTextLen)}
        \cup {OneOrMoreCalls(<< "b" >>, << "a" >>, << >>, t) : t \in Strings({"a", "b"}, MaxTextLen)}
        \cup {OneOrMoreCalls(<< "c" >>, << "a" >>, << "t" >>, t) :
                t \in {<< "a", "c", "t" >>, << "c", "a", "t" >>, << "c", "a", "a", "a", "t", "s" >>}}
        \cup {OneOrMoreCalls(<< >>, << "(", "a", "b", "|", "a", ")" >>, << "b", "c" >>, t) :
                t \in {<< "a", "b", "c" >>, << "a", "b", "b", "c" >>, << "a", "c" >>}}

\* the same text under p (A|B) q, under p (A) q and under p (B) q
AlternationCalls(p, A, B, q, t) ==
    << Call(p \o << "(" >> \o A \o << "|" >> \o B \o << ")" >> \o q, t),
       Call(p \o << "(" >> \o A \o << ")" >> \o q, t),
       Call(p \o << "(" >> \o B \o << ")" >> \o q, t) >>

AlternationSuites ==
    {AlternationCalls(<< "a" >>, << "b" >>, << "a" >>, << >>, t) :
        t \in Strings({"a", "b"}, MaxTextLen)}
        \cup {AlternationCalls(<< >>, << "a", "b" >>, << "a" >>, << "b" >>, t) :
                t \in Strings({"a", "b"}, MaxTextLen)}
        \cup {AlternationCalls(<< >>, << "(", "a", "*", ")", "*", "b" >>, << "a" >>, << >>, t) :
                t \in Strings({"a", "b"}, MaxTextLen)}
        \cup {AlternationCalls(<< "a", " " >>, << "c", "a", "t" >>, << "d", "o", "g" >>, << >>, t) :
                t \in {<< "a", " ", "c", "a", "t" >>, << "a", " ", "d", "o", "g" >>, << "a", " ", "c", "o", "w" >>}}

\* a digit, a space, three word characters, then the letter s
ClassPattern == << "\\", "d", " ", "\\", "w", "\\", "w", "\\", "w", "s" >>

ClassTexts ==
    { << "s", "a", "l", "l", "y", " ", "h", "a", "s", " ", "1", " ", "d", "o", "g" >>,
      << "s", "a", "l", "l", "y", " ", "h", "a", "s", " ", "3", " ", "d", "o", "g", "s" >>,
      << "1", " ", "d", "o", "g" >>,
      << "3", " ", "d", "o", "g", "s" >> }

ClassSuites == {<< Call(ClassPattern, t) >> : t \in ClassTexts}

\* ^((.)(.))\k on the texts x y v: an outer group with two groups nested
\* in it, and a backreference to one of the three
NestedGroupPattern(k) == << "^", "(", "(", ".", ")", "(", ".", ")", ")", "\\" >> \o << k >>

NestedGroupSuites ==
    {<< Call(NestedGroupPattern(k), xy \o v) >> :
        k \in {"1", "2", "3"},
        xy \in [1..2 -> {"a", "b"}],
        v \in Strings({"a", "b"}, 2)}

\* the quantifiers of parser.rs, those no pattern is parsed to included
Quantifiers ==
    { [kind |-> "ZeroOrOne"], [kind |-> "ZeroOrMore"], [kind |-> "OneOrMore"],
      [kind |-> "Exact", n |-> 2], [kind |-> "Range", n |-> 1, m |-> 2] }

QuantifiedChar(q) == [type |-> "QuantifiedExpr", expr |-> Char("a"), quantifier |-> q]

\* a quantified character: alone, after another unit, in a group, as an
\* alternative and under a further quantifier
QuantifiedAsts ==
    UNION {{ QuantifiedChar(q),
             [type |-> "ImplicitGroup", children |-> << Char("b"), QuantifiedChar(q) >>],
             [type |-> "Group", index |-> 1, children |-> << QuantifiedChar(q) >>],
             [type |-> "Alternation", children |-> << Char("b"), QuantifiedChar(q) >>],
             [type |-> "QuantifiedExpr", expr |-> QuantifiedChar(q),
              quantifier |-> [kind |-> "ZeroOrOne"]] } : q \in Quantifiers}

CompileSuites == {<< CompileCall(ast) >> : ast \in QuantifiedAsts}

\* the same pattern compiled twice and run on the same text
RecompileSuites ==
    {<< Call(p, t), Call(p, t) >> :
        p \in { << "a", "*", "b" >>,
                << "^", "(", "a", "|", "b", ")", "\\", "1", "$" >>,
                << "(", "a", "b", "|", "a", ")", "*", "c" >> },
        t \in Strings({"a", "b"}, MaxTextLen)}

\* a repeated group whose alternatives have different lengths, and a
\* backreference to it, on the texts w c v with w in (a|ab)+
CapturePattern == << "^", "(", "a", "|", "a", "b", ")", "*", "c", "\\", "1", "$" >>

CaptureSuites ==
    {<< Call(CapturePattern, w \o << "c" >> \o v) >> :
        w \in { << "a" >>, << "a", "b" >>, << "a", "a", "b" >>, << "a", "b", "a" >> },
        v \in Strings({"a", "b"}, 2)}

\* backreferences placed before, inside and after their group, on texts
\* of both cases
BackreferencePlacements ==
    { << "\\", "1", "(", "a", ")" >>,
      << "(", "a", "\\", "1", ")" >>,
      << "^", "(", "a", ")", "\\", "1", "$" >>,
      << "^", "(", "a", "*", ")", "b", "\\", "1", "$" >> }

PlacementSuites ==
    {<< Call(p, t) >> : p \in BackreferencePlacements,
                        t \in Strings({"a", "A", "b"}, MaxTextLen)}

\* Matcher::matches called twice on one Matcher
AgainPatterns ==
    { << "a" >>, << "a", "*" >>, << "^", "a" >>, << "(", "a", ")", "b" >> }

AgainSuites ==
    {<< Call(p, t), AgainCall(p, t) >> : p \in AgainPatterns,
                                        t \in Strings({"a", "b"}, MaxTextLen)}

Suites ==
    LiteralSuites \cup SearchSuites \cup NestedSuites \cup GroupSuites
        \cup BackreferenceSuites \cup OptionalSuites \cup OneOrMoreSuites
        \cup AlternationSuites \cup ClassSuites
        \cup NestedGroupSuites \cup CompileSuites \cup RecompileSuites
        \cup CaptureSuites \cup PlacementSuites \cup AgainSuites

(***************************************************************************)
(* The state.                                                              *)
(***************************************************************************)
VARIABLES
    calls,          \* the calls of Regex::matches this run performs
    ci,             \* the call being performed (Len(calls) + 1: all done)
    outcomes,       \* of each finished call: its result, the offsets it
                    \* attempted and Matcher::cursor at its end
    COUNTER,        \* static COUNTER of compiler.rs
    machine,        \* Matcher::machine of the current call
    matcher,        \* Matcher::cursor, start_captured_groups, end_captured_groups
    cursor,         \* the local cursor of Matcher::matches
    start_captured_group_indices,  \* the local map of Matcher::matches
    stack,          \* the active calls of try_match, outermost first
    attempts,       \* the offsets at which matches has called try_match
    pc              \* the position in Regex::matches / Matcher::matches / try_match

vars == << calls, ci, outcomes, COUNTER, machine, matcher, cursor,
           start_captured_group_indices, stack, attempts, pc >>

NoMachine ==
    [fsm |-> NoFSM, transitions |-> EmptyMap, captured_groups |-> << >>]

text == calls[ci].text

top == stack[Len(stack)]

Init ==
    /\ calls \in Suites
    /\ ci = 1
    /\ outcomes = << >>
    /\ COUNTER = 1
    /\ machine = NoMachine
    /\ matcher = Matcher_new(NoMachine)
    /\ cursor = Cursor_new
    /\ start_captured_group_indices = EmptyMap
    /\ stack = << >>
    /\ attempts = << >>
    /\ pc = "call"

\* the call ends: its outcome is recorded and the next call may start.
\* A panic or a stack overflow ends the process, so the next call runs in
\* a new one, whose COUNTER starts at 1 again.
Finish(result, counter, m) ==
    /\ outcomes' = Append(outcomes,
                      [result |-> result,
                       machine |-> m,
                       attempts |-> IF pc = "call" THEN << >> ELSE attempts,
                       cursor |-> IF result = "true" THEN cursor ELSE matcher.cursor])
    /\ ci' = ci + 1
    /\ COUNTER' = counter
    /\ stack' = << >>
    /\ pc' = "call"

\* Regex::matches with state ids that are counted from the same value in
\* every compilation
Regex_matches_compiled_local_ids(m) ==
    IF ~m.ok
    THEN /\ Finish("panic", 1, NoMachine)
         /\ UNCHANGED << machine, matcher >>
    ELSE /\ machine' = [fsm |-> m.fsm, transitions |-> m.transitions,
                        captured_groups |-> m.captured_groups]
         /\ matcher' = Matcher_new(m)
         /\ COUNTER' = COUNTER
         /\ pc' = "matches"
         /\ UNCHANGED << ci, outcomes, stack >>

Regex_matches_compiled(m) ==
    IF ~m.ok
    THEN /\ Finish("panic", 1, NoMachine)
         /\ UNCHANGED << machine, matcher >>
    ELSE /\ machine' = [fsm |-> m.fsm, transitions |-> m.transitions,
                        captured_groups |-> m.captured_groups]
         /\ matcher' = Matcher_new(m)
         /\ COUNTER' = m.counter
         /\ pc' = "matches"
         /\ UNCHANGED << ci, outcomes, stack >>

Regex_matches_parsed(p) ==
    IF ~p.ok
    THEN /\ Finish("panic", 1, NoMachine)
         /\ UNCHANGED << machine, matcher >>
    ELSE Regex_matches_compiled(Compiler_compile(p.unit, COUNTER))

\* Regex::matches up to the call of Matcher::matches: parse().unwrap(),
\* Compiler::compile, Matcher::new
Regex_matches ==
    /\ pc = "call"
    /\ ci <= Len(calls)
    /\ calls[ci].op = "matches"
    /\ Regex_matches_parsed(parse(calls[ci].pattern))
    /\ UNCHANGED << calls, cursor, start_captured_group_indices, attempts >>

\* Compiler::compile has returned m, or has panicked
Compiler_compile_returned(m) ==
    IF ~m.ok
    THEN Finish("panic", 1, NoMachine)
    ELSE Finish("compiled", m.counter,
                [fsm |-> m.fsm, transitions |-> m.transitions,
                 captured_groups |-> m.captured_groups])

\* a call of Compiler::compile on an AST that no pattern need have
\* produced
Compiler_compile_call ==
    /\ pc = "call"
    /\ ci <= Len(calls)
    /\ calls[ci].op = "compile"
    /\ Compiler_compile_returned(Compiler_compile(calls[ci].ast, COUNTER))
    /\ UNCHANGED << calls, machine, matcher, cursor, start_captured_group_indices,
                    attempts >>

\* Matcher::matches is called again on the matcher of the call before,
\* which has returned
Matcher_matches_again ==
    /\ pc = "call"
    /\ ci <= Len(calls)
    /\ calls[ci].op = "again"
    /\ ci > 1
    /\ outcomes[ci - 1].result \in {"true", "false"}
    /\ pc' = "matches"
    /\ UNCHANGED << calls, ci, outcomes, COUNTER, machine, matcher, cursor,
                    start_captured_group_indices, stack, attempts >>

\* Matcher::matches, lines 33-34
matches_enter ==
    /\ pc = "matches"
    /\ cursor' = matcher.cursor
    /\ start_captured_group_indices' = EmptyMap
    /\ attempts' = << >>
    /\ pc' = "while"
    /\ UNCHANGED << calls, ci, outcomes, COUNTER, machine, matcher, stack >>

\* an active call of try_match: its state, the cursor it works on, the
\* position ti of its for loop in the state's transitions and, for the
\* record, the cursor and the tentative starts it was called with
Frame(state, cur, starts) ==
    [state |-> state, cursor |-> cur, ti |-> 1, entry |-> cur, starts |-> starts]

\* Matcher::matches, line 35: the call of try_match on the local cursor
matches_try ==
    /\ pc = "while"
    /\ stack' = << Frame(machine.fsm.start, cursor, start_captured_group_indices) >>
    /\ attempts' = Append(attempts, cursor.index)
    /\ pc' = "enter"
    /\ UNCHANGED << calls, ci, outcomes, COUNTER, machine, matcher, cursor,
                    start_captured_group_indices >>

\* try_match, lines 61-68, fin the result of finalizing the groups that
\* end at the state
try_match_finalized(starts, fin) ==
    IF ~fin.ok
    THEN /\ Finish("panic", 1, machine)
         /\ start_captured_group_indices' = starts
    ELSE /\ stack' = [stack EXCEPT ![Len(stack)].cursor = fin.cursor]
         /\ start_captured_group_indices' = starts
         /\ pc' = "loop"
         /\ UNCHANGED << ci, outcomes, COUNTER >>

\* try_match, lines 54-68, starts the map after lines 54-59
try_match_started(id, starts) ==
    try_match_finalized(starts,
        IF id \in DOMAIN matcher.end_captured_groups
        THEN FinalizeGroups(text, machine.captured_groups,
                            matcher.end_captured_groups[id], 1, starts, top.cursor)
        ELSE [ok |-> TRUE, cursor |-> top.cursor])

\* try_match, lines 54-59: the tentative starts once the groups that start
\* at the state of the innermost call are recorded
PendingStarts ==
    IF top.state \in DOMAIN matcher.start_captured_groups
    THEN InsertStarts(machine.captured_groups,
                      matcher.start_captured_groups[top.state], 1,
                      start_captured_group_indices, top.cursor.index)
    ELSE start_captured_group_indices

\* try_match, lines 50-68
try_match_enter ==
    /\ pc = "enter"
    /\ Len(stack) <= StackLimit
    /\ IF top.state = machine.fsm.end
       THEN /\ pc' = "return_true"
            /\ UNCHANGED << ci, outcomes, COUNTER, stack,
                            start_captured_group_indices >>
       ELSE try_match_started(top.state, PendingStarts)
    /\ UNCHANGED << calls, machine, matcher, cursor, attempts >>

\* the recursion of try_match has used up the thread's stack: the process
\* is aborted
try_match_overflow ==
    /\ pc = "enter"
    /\ Len(stack) > StackLimit
    /\ Finish("stack_overflow", 1, machine)
    /\ UNCHANGED << calls, machine, matcher, cursor,
                    start_captured_group_indices, attempts >>

\* try_match, lines 71-74, r the result of the transition's condition
try_match_evaluated(t, r) ==
    IF r.accepted
    THEN /\ stack' = Append([stack EXCEPT ![Len(stack)].cursor = advance(@, r.n)],
                            Frame(t.target, advance(top.cursor, r.n),
                                  start_captured_group_indices))
         /\ pc' = "enter"
    ELSE /\ stack' = [stack EXCEPT ![Len(stack)].ti = @ + 1]
         /\ pc' = "loop"

\* try_match, lines 70-74: one iteration of the for loop, up to the
\* recursive call
try_match_transition ==
    /\ pc = "loop"
    /\ top.ti <= Len(machine.transitions[top.state])
    /\ try_match_evaluated(machine.transitions[top.state][top.ti],
           evaluate(machine.transitions[top.state][top.ti].condition, text, top.cursor))
    /\ UNCHANGED << calls, ci, outcomes, COUNTER, machine, matcher, cursor,
                    start_captured_group_indices, attempts >>

\* try_match, line 81: no transition is left; in the caller the recursive
\* call of line 74 was false and its for loop goes on
try_match_return_false ==
    /\ pc = "loop"
    /\ top.ti > Len(machine.transitions[top.state])
    /\ IF Len(stack) = 1
       THEN /\ cursor' = top.cursor
            /\ stack' = << >>
            /\ pc' = "failed"
       ELSE /\ stack' = [SubSeq(stack, 1, Len(stack) - 1)
                            EXCEPT ![Len(stack) - 1].ti = @ + 1]
            /\ pc' = "loop"
            /\ UNCHANGED cursor
    /\ UNCHANGED << calls, ci, outcomes, COUNTER, machine, matcher,
                    start_captured_group_indices, attempts >>

\* try_match returns true (line 51 or 76); in the caller, lines 75-76
\* adopt the cloned cursor
try_match_return_true ==
    /\ pc = "return_true"
    /\ IF Len(stack) = 1
       THEN /\ cursor' = top.cursor
            /\ stack' = << >>
            /\ pc' = "matched"
       ELSE /\ stack' = [SubSeq(stack, 1, Len(stack) - 1)
                            EXCEPT ![Len(stack) - 1].cursor = top.cursor]
            /\ pc' = "return_true"
            /\ UNCHANGED cursor
    /\ UNCHANGED << calls, ci, outcomes, COUNTER, machine, matcher,
                    start_captured_group_indices, attempts >>

\* Matcher::matches, lines 36-40: the body of the while loop
matches_advance ==
    /\ pc = "failed"
    /\ cursor' = advance(cursor, 1)
    /\ IF is_end(text, cursor')
       THEN /\ Finish("false", COUNTER, machine)
            /\ UNCHANGED start_captured_group_indices
       ELSE /\ start_captured_group_indices' = EmptyMap
            /\ pc' = "while"
            /\ UNCHANGED << ci, outcomes, COUNTER, stack >>
    /\ UNCHANGED << calls, machine, matcher, attempts >>

\* Matcher::matches, lines 43-44
matches_return_true ==
    /\ pc = "matched"
    /\ matcher' = [matcher EXCEPT !.cursor = cursor]
    /\ Finish("true", COUNTER, machine)
    /\ UNCHANGED << calls, machine, cursor, start_captured_group_indices, attempts >>

Next ==
    \/ Regex_matches
    \/ Compiler_compile_call
    \/ Matcher_matches_again
    \/ matches_enter
    \/ matches_try
    \/ try_match_enter
    \/ try_match_overflow
    \/ try_match_transition
    \/ try_match_return_false
    \/ try_match_return_true
    \/ matches_advance
    \/ matches_return_true

Spec == Init /\ [][Next]_vars

(***************************************************************************)
(* The properties.  A property about a call speaks of a finished call i:   *)
(* its pattern and text are calls[i], its result and its attempts are      *)
(* outcomes[i].                                                            *)
(***************************************************************************)
Finished == 1..Len(outcomes)

\* p occurs in t at offset i, letters compared ignoring ASCII case
OccursAt(p, t, i) ==
    /\ i + Len(p) <= Len(t)
    /\ \A k \in 1..Len(p) : eq_ignore_ascii_case(p[k], t[i + k])

Occurs(p, t) == \E i \in 0..Len(t) : OccursAt(p, t, i)

\* C1: a pattern made only of literal characters matches a text iff the
\* pattern occurs in the text as a contiguous substring (letters compared
\* ignoring case), wherever the occurrence is, also when a proper prefix of
\* the pattern stands immediately before it.
C1_LiteralSubstring ==
    \A i \in Finished :
        << calls[i] >> \in LiteralSuites =>
            (outcomes[i].result = "true" <=> Occurs(calls[i].pattern, calls[i].text))

\* C2: the top-level search attempts the offsets 0, 1, ..., len(text) in
\* increasing order and skips none; it returns true at the first offset
\* whose attempt succeeds, and false only after the attempt at every one of
\* these offsets, offset len(text) included, has failed.
C2_SearchOffsets ==
    \A i \in Finished :
        outcomes[i].result \in {"true", "false"} =>
            /\ \A k \in 1..Len(outcomes[i].attempts) : outcomes[i].attempts[k] = k - 1
            /\ outcomes[i].result = "false" =>
                   Len(outcomes[i].attempts) = Len(calls[i].text) + 1

\* two calls of try_match with the same state, position, captures and
\* tentative starts: the second does what the first did
SameCall(f, g) == f.state = g.state /\ f.entry = g.entry /\ f.starts = g.starts

\* C3: every call of matches ends with a definite outcome (true, false or a
\* complexity-exceeded signal) and never by recursing until the stack is
\* used up; in particular no call of try_match is active inside a call of
\* try_match with the same state, position and captures, which is how the
\* search would recurse without bound on a repeated expression that matches
\* the empty string.
C3_BoundedRecursion ==
    /\ \A i \in Finished : outcomes[i].result # "stack_overflow"
    /\ \A j \in 1..Len(stack) : \A k \in 1..Len(stack) :
           j < k => ~SameCall(stack[j], stack[k])

\* C4: whenever the search processes the end state of a group that has a
\* pending start s, at offset o, then s <= o <= len(text): the substring
\* [s, o) exists and finalizing the capture cannot fail.
C4_CaptureBounds ==
    (/\ pc = "enter"
     /\ top.state # machine.fsm.end
     /\ top.state \in DOMAIN matcher.end_captured_groups) =>
        \A k \in 1..Len(matcher.end_captured_groups[top.state]) :
            LET index == machine.captured_groups[matcher.end_captured_groups[top.state][k]].index
            IN  index \in DOMAIN PendingStarts =>
                    /\ PendingStarts[index] <= top.cursor.index
                    /\ top.cursor.index <= Len(text)

\* t holds at offset i a character that (a) matches, then " and ", then
\* the identical character
BackreferenceAt(t, i) ==
    /\ i + 7 <= Len(t)
    /\ eq_ignore_ascii_case("a", t[i + 1])
    /\ OccursAt(<< " ", "a", "n", "d", " " >>, t, i + 1)
    /\ t[i + 7] = t[i + 1]

\* C5: (a) and \1 matches a text iff the text contains something the group
\* matches, then " and ", then the identical substring again, compared
\* exactly although the literals are compared ignoring case.
C5_BackreferenceEquality ==
    \A i \in Finished :
        calls[i].pattern = BackreferencePattern =>
            (outcomes[i].result = "true" <=>
                \E k \in 0..Len(calls[i].text) : BackreferenceAt(calls[i].text, k))

IsLetter(c) == InSeq(c, LowerCase) \/ InSeq(c, UpperCase)

\* a pattern of letters, wildcards, quantifiers and anchors only
Plain(p) == \A k \in 1..Len(p) : IsLetter(p[k]) \/ p[k] \in {".", "*", "+", "?", "^", "$"}

RECURSIVE LiteralPrefix(_, _)
\* the literal characters X with which p goes on from its k-th character:
\* letters under no quantifier
LiteralPrefix(p, k) ==
    IF k <= Len(p) /\ IsLetter(p[k]) /\ ~(k < Len(p) /\ p[k + 1] \in {"*", "+", "?"})
    THEN << p[k] >> \o LiteralPrefix(p, k + 1)
    ELSE << >>

RECURSIVE LiteralSuffix(_, _)
\* the literal characters Y with which p ends at its k-th character
LiteralSuffix(p, k) ==
    IF k >= 1 /\ IsLetter(p[k]) THEN LiteralSuffix(p, k - 1) \o << p[k] >> ELSE << >>

\* the condition the innermost call of try_match is about to evaluate
AtCondition(name) ==
    /\ pc = "loop"
    /\ top.ti <= Len(machine.transitions[top.state])
    /\ machine.transitions[top.state][top.ti].condition.name = name

ConditionResult ==
    evaluate(machine.transitions[top.state][top.ti].condition, text, top.cursor)

\* C6: a pattern ^X... matches only if the match starts at offset 0 and the
\* text starts with X; a pattern ...Y$ matches only if the match ends at
\* offset len(text) and the text ends with Y; the start-of-string condition
\* is accepted iff the offset is 0 and the end-of-string condition iff the
\* offset is len(text), and both consume nothing.
C6_Anchors ==
    /\ \A i \in Finished :
           (outcomes[i].result = "true" /\ Plain(calls[i].pattern)) =>
               /\ calls[i].pattern[1] = "^" =>
                      /\ outcomes[i].attempts = << 0 >>
                      /\ OccursAt(LiteralPrefix(calls[i].pattern, 2), calls[i].text, 0)
               /\ calls[i].pattern[Len(calls[i].pattern)] = "$" =>
                      /\ outcomes[i].cursor.index = Len(calls[i].text)
                      /\ Len(LiteralSuffix(calls[i].pattern, Len(calls[i].pattern) - 1))
                             <= Len(calls[i].text)
                      /\ OccursAt(LiteralSuffix(calls[i].pattern, Len(calls[i].pattern) - 1),
                                  calls[i].text,
                                  Len(calls[i].text)
                                      - Len(LiteralSuffix(calls[i].pattern,
                                                          Len(calls[i].pattern) - 1)))
    /\ AtCondition("start_of_string") =>
           ConditionResult = IF top.cursor.index = 0 THEN Accepted(0) ELSE Rejected
    /\ AtCondition("end_of_string") =>
           ConditionResult = IF top.cursor.index = Len(text) THEN Accepted(0) ELSE Rejected

\* a pattern with both anchors has matched a text that is not empty
C6_Witness ==
    /\ ci > Len(calls)
    /\ outcomes[1].result = "true"
    /\ Plain(calls[1].pattern)
    /\ calls[1].pattern[1] = "^"
    /\ calls[1].pattern[Len(calls[1].pattern)] = "$"
    /\ Len(calls[1].text) > 0

\* the anchored attempt of call i at offset 0 has succeeded
SucceedsAtZero(i) == outcomes[i].result = "true" /\ outcomes[i].attempts = << 0 >>

\* C7: the attempt of a pattern with a X ? succeeds iff the attempt of the
\* same pattern with a X, or with a alone, succeeds at that position; the
\* branch with one occurrence of X is tried first, so where a X succeeds
\* a X ? ends where a X ends.
C7_OptionalLaw ==
    (calls \in OptionalSuites /\ ci > Len(calls)) =>
        /\ SucceedsAtZero(1) <=> (SucceedsAtZero(2) \/ SucceedsAtZero(3))
        /\ SucceedsAtZero(2) => outcomes[1].cursor.index = outcomes[2].cursor.index

\* C8: the anchored attempt of p X + q succeeds iff p, then n >= 1
\* consecutive matches of X, then q match in sequence, that is iff the
\* attempt of p X q, of p X X q, ... succeeds: never with no X, and with
\* every number n >= 1 of them.
C8_OneOrMoreLaw ==
    (calls \in OneOrMoreSuites /\ ci > Len(calls)) =>
        (SucceedsAtZero(1) <=> \E n \in 2..Len(calls) : SucceedsAtZero(n))

\* C9: the anchored attempt of p (A|B) q succeeds iff the attempt of p A q
\* or of p B q succeeds at that offset; A is tried before B, so where p A q
\* succeeds p (A|B) q ends where p A q ends; a text that matches neither is
\* rejected.
C9_AlternationLaw ==
    (calls \in AlternationSuites /\ ci > Len(calls)) =>
        /\ SucceedsAtZero(1) <=> (SucceedsAtZero(2) \/ SucceedsAtZero(3))
        /\ SucceedsAtZero(2) => outcomes[1].cursor.index = outcomes[2].cursor.index

\* p is one character group, [items] or [^items]
IsGroupPattern(p) == Len(p) >= 3 /\ p[1] = "[" /\ p[Len(p)] = "]"

\* ch is a member of the items listed between the brackets of p: a listed
\* literal (compared ignoring ASCII case iff ignore_case), a digit for \d,
\* a word character for \w
Listed(p, ch, ignore_case) ==
    \E k \in 2..(Len(p) - 1) :
        \/ /\ IsLetter(p[k])
           /\ p[k - 1] # "\\"
           /\ IF ignore_case THEN eq_ignore_ascii_case(p[k], ch) ELSE p[k] = ch
        \/ p[k] = "\\" /\ p[k + 1] = "d" /\ is_ascii_digit(ch)
        \/ p[k] = "\\" /\ p[k + 1] = "w" /\ (is_ascii_alphanumeric(ch) \/ ch = "_")

\* ch is a member for [items], and is not for [^items]
Qualifies(p, ch, ignore_case) == Listed(p, ch, ignore_case) # (p[2] = "^")

\* the condition of a character group is Accepted(1) iff the current
\* character exists and qualifies, and Rejected otherwise; hence the
\* pattern matches a text iff the text has a character that qualifies, at
\* the first such character and consuming it alone
CharacterGroupLaw(ignore_case) ==
    /\ \A i \in Finished :
           IsGroupPattern(calls[i].pattern) =>
               /\ outcomes[i].result \in {"true", "false"}
               /\ outcomes[i].result = "true" <=>
                      \E k \in 1..Len(calls[i].text) :
                          Qualifies(calls[i].pattern, calls[i].text[k], ignore_case)
               /\ outcomes[i].result = "true" =>
                      /\ Qualifies(calls[i].pattern,
                                   calls[i].text[outcomes[i].cursor.index], ignore_case)
                      /\ outcomes[i].attempts =
                             [k \in 1..outcomes[i].cursor.index |-> k - 1]
    /\ AtCondition("character_group") =>
           ConditionResult =
               IF /\ HasChar(text, top.cursor)
                  /\ Qualifies(calls[ci].pattern, CharAt(text, top.cursor), ignore_case)
               THEN Accepted(1) ELSE Rejected

\* C10 as amended: the condition for [items] is Accepted(1) iff the current
\* character is a member of items, a listed literal being compared ignoring
\* ASCII case as literals are everywhere; the condition for [^items] is
\* Accepted(1) iff the current character exists and is not such a member;
\* both are Rejected at the end of the text.  Hence [^ab] matches a text
\* iff it has a character other than a, A, b and B.
C10_CharacterGroup == CharacterGroupLaw(TRUE)

\* [^ab] has matched a text at its second character, after rejecting B
C10_Witness ==
    /\ ci > Len(calls)
    /\ calls[1].pattern = << "[", "^", "a", "b", "]" >>
    /\ Len(calls[1].text) >= 2
    /\ calls[1].text[1] = "B"
    /\ outcomes[1].result = "true"
    /\ outcomes[1].attempts = << 0, 1 >>

\* C10 as stated: membership of a listed literal is exact, so that [^xyz]
\* matches a text iff it has a character outside {x, y, z}.
C10_ExactMembership == CharacterGroupLaw(FALSE)

\* t holds at offset i a digit, a space, three word characters and the
\* letter s
ClassAt(t, i) ==
    /\ i + 6 <= Len(t)
    /\ is_ascii_digit(t[i + 1])
    /\ t[i + 2] = " "
    /\ \A k \in 3..5 : is_ascii_alphanumeric(t[i + k]) \/ t[i + k] = "_"
    /\ eq_ignore_ascii_case("s", t[i + 6])

\* C11 as amended: \d \w\w\ws matches a text iff the text holds a digit, a
\* space, three word characters and then the letter s; 'sally has 1 dog'
\* holds no letter s after 'dog', so matches returns false on it, and true
\* on 'sally has 3 dogs'.
C11_ClassesCombined ==
    \A i \in Finished :
        calls[i].pattern = ClassPattern =>
            /\ outcomes[i].result \in {"true", "false"}
            /\ outcomes[i].result = "true" <=>
                   \E k \in 0..Len(calls[i].text) : ClassAt(calls[i].text, k)

\* the call on 'sally has 1 dog' has returned false after the attempt at
\* the digit, and every later one, failed
C11_Witness ==
    /\ ci > Len(calls)
    /\ calls[1] = Call(ClassPattern, << "s", "a", "l", "l", "y", " ", "h", "a", "s", " ", "1", " ", "d", "o", "g" >>)
    /\ outcomes[1].result = "false"
    /\ \E k \in 1..Len(outcomes[1].attempts) : outcomes[1].attempts[k] = 10

\* C11 as stated: \d \w\w\ws matches 'sally has 1 dog'.
C11_MatchesOneDog ==
    \A i \in Finished :
        calls[i] = Call(ClassPattern, << "s", "a", "l", "l", "y", " ", "h", "a", "s", " ", "1", " ", "d", "o", "g" >>) =>
            outcomes[i].result = "true"

RECURSIVE GroupIndices(_)
RECURSIVE GroupIndicesOf(_, _)
\* the indices of the groups of an AST in the order in which their opening
\* parentheses stand in the pattern
GroupIndices(unit) ==
    CASE unit.type \in {"ImplicitGroup", "Alternation"} -> GroupIndicesOf(unit.children, 1)
      [] unit.type = "Group" -> << unit.index >> \o GroupIndicesOf(unit.children, 1)
      [] unit.type = "QuantifiedExpr" -> GroupIndices(unit.expr)
      [] OTHER -> << >>

GroupIndicesOf(children, i) ==
    IF i > Len(children) THEN << >>
    ELSE GroupIndices(children[i]) \o GroupIndicesOf(children, i + 1)

OpeningParentheses(p) == Cardinality({k \in 1..Len(p) : p[k] = "("})

\* the text that group k of ^((.)(.)) captures on a text that begins x y
NestedGroupText(t, k) ==
    CASE k = "1" -> SubSeq(t, 1, 2)
      [] k = "2" -> SubSeq(t, 1, 1)
      [] k = "3" -> SubSeq(t, 2, 2)

\* C12: groups are numbered 1, 2, 3, ... in the order of their opening
\* parentheses, an outer group before the groups nested in it, and \k is
\* resolved against the text captured by group k: for ^((.)(.))\k, \1 is
\* the text of the whole outer group, \2 that of the first inner group and
\* \3 that of the second.
C12_GroupNumbering ==
    /\ \A i \in 1..Len(calls) :
           parse(calls[i].pattern).ok =>
               GroupIndices(parse(calls[i].pattern).unit)
                   = [k \in 1..OpeningParentheses(calls[i].pattern) |-> k]
    /\ \A i \in Finished :
           << calls[i] >> \in NestedGroupSuites =>
               (outcomes[i].result = "true" <=>
                   starts_with(SubSeq(calls[i].text, 3, Len(calls[i].text)),
                               NestedGroupText(calls[i].text, calls[i].pattern[11])))

\* ^((.)(.))\3 has matched a b b: \3 is the second inner group, not the
\* first and not the outer one
C12_Witness ==
    /\ ci > Len(calls)
    /\ calls[1] = Call(NestedGroupPattern("3"), << "a", "b", "b" >>)
    /\ outcomes[1].result = "true"
    /\ outcomes[1].cursor.captured_groups = << << "a", "b" >>, << "a" >>, << "b" >> >>

RECURSIVE Unsupported(_)
\* the AST holds a quantifier Exact(n) or Range(n, m)
Unsupported(unit) ==
    CASE unit.type \in {"ImplicitGroup", "Alternation", "Group"} ->
            \E i \in 1..Len(unit.children) : Unsupported(unit.children[i])
      [] unit.type = "QuantifiedExpr" ->
            unit.quantifier.kind \in {"Exact", "Range"} \/ Unsupported(unit.expr)
      [] OTHER -> FALSE

\* C13: compiling an AST that holds a quantifier Exact(n) or Range(n, m)
\* fails with a fatal outcome: no automaton is returned for it, and it is
\* never compiled as if the quantifier were a supported one; an AST without
\* them is compiled.
C13_UnsupportedQuantifier ==
    \A i \in Finished :
        calls[i].op = "compile" =>
            IF Unsupported(calls[i].ast)
            THEN outcomes[i].result = "panic" /\ outcomes[i].machine = NoMachine
            ELSE outcomes[i].result = "compiled" /\ outcomes[i].machine # NoMachine

\* the compiler has panicked on (a{2})?, where Exact stands under a
\* supported quantifier
C13_Witness ==
    /\ ci > Len(calls)
    /\ calls[1] = CompileCall([type |-> "QuantifiedExpr",
                               expr |-> QuantifiedChar([kind |-> "Exact", n |-> 2]),
                               quantifier |-> [kind |-> "ZeroOrOne"]])
    /\ outcomes[1].result = "panic"

StateIds(m) == DOMAIN m.transitions

\* C14: compiling the same AST twice yields two automata with different
\* state ids that accept the same texts: the two calls give the same
\* result, after the same attempts and with the same captures.
C14_Recompile ==
    (calls \in RecompileSuites /\ ci > Len(calls)) =>
        /\ outcomes[1].result = outcomes[2].result
        /\ outcomes[1].attempts = outcomes[2].attempts
        /\ outcomes[1].cursor = outcomes[2].cursor
        /\ outcomes[1].result \in {"true", "false"} =>
               /\ StateIds(outcomes[1].machine) # {}
               /\ StateIds(outcomes[1].machine) \cap StateIds(outcomes[2].machine) = {}

\* ^(a|b)\1$ was compiled twice, to automata without a state id in common,
\* and has matched b b both times
C14_Witness ==
    /\ ci > Len(calls)
    /\ calls = << Call(<< "^", "(", "a", "|", "b", ")", "\\", "1", "$" >>, << "b", "b" >>),
                 Call(<< "^", "(", "a", "|", "b", ")", "\\", "1", "$" >>, << "b", "b" >>) >>
    /\ outcomes[1].result = "true"
    /\ outcomes[2].result = "true"
    /\ outcomes[1].machine # outcomes[2].machine

\* C15: when try_match explores a transition that is Accepted(k) and the
\* exploration of its target fails, the offset seen by the remaining
\* sibling transitions of the state, and by the caller of the try_match
\* that fails (the offset loop of matches included), is the offset before
\* the transition was tried: a failed exploration moves nobody's position.
C15_TransactionalPosition ==
    /\ (pc = "loop" /\ top.ti <= Len(machine.transitions[top.state])) =>
           top.cursor.index = top.entry.index
    /\ \A k \in 1..(Len(stack) - 1) : stack[k].cursor.index = stack[k + 1].entry.index
    /\ pc = "failed" => cursor.index = attempts[Len(attempts)]

\* the offset at which the state id was most recently entered on the
\* current search path
MostRecentVisit(id) ==
    stack[CHOOSE k \in 1..Len(stack) :
              /\ stack[k].state = id
              /\ \A j \in (k + 1)..Len(stack) : stack[j].state # id].entry.index

\* the text of the last iteration of (a|ab) in w
LastIteration(w) == IF w[Len(w)] = "b" THEN << "a", "b" >> ELSE << "a" >>

PositionOfC(t) == CHOOSE k \in 1..Len(t) : t[k] = "c"

\* C16: whenever the capture of a group g is finalized at g's end state,
\* the pending start is the offset at which g's start state was most
\* recently visited on the current search path, never a start recorded on
\* a branch that has been abandoned; so a group re-entered by a loop yields
\* the text of its last iteration: ^(a|ab)*c\1$ matches w c v, w in
\* (a|ab)+, iff v is the last iteration of w.
C16_CaptureContent ==
    /\ (/\ pc = "enter"
        /\ top.state # machine.fsm.end
        /\ top.state \in DOMAIN matcher.end_captured_groups) =>
           \A k \in 1..Len(matcher.end_captured_groups[top.state]) :
               LET g == machine.captured_groups[matcher.end_captured_groups[top.state][k]]
               IN  g.index \in DOMAIN PendingStarts =>
                       PendingStarts[g.index] = MostRecentVisit(g.start)
    /\ \A i \in Finished :
           << calls[i] >> \in CaptureSuites =>
               (outcomes[i].result = "true" <=>
                   SubSeq(calls[i].text, PositionOfC(calls[i].text) + 1, Len(calls[i].text))
                       = LastIteration(SubSeq(calls[i].text, 1,
                                              PositionOfC(calls[i].text) - 1)))

RECURSIVE RunEnd(_, _)
\* the offset at which the run of letters a that starts at offset i ends
RunEnd(t, i) ==
    IF i < Len(t) /\ eq_ignore_ascii_case("a", t[i + 1]) THEN RunEnd(t, i + 1) ELSE i

MinId(ids) == CHOOSE c \in ids : \A d \in ids : c <= d

\* C17: at the end state of the repeated child of * and of + the loop-back
\* edge to the child's start is the first transition, before the edge that
\* leaves the repetition, so the search takes another occurrence first:
\* a* and a+ match a whole run of a's, not its first letter.
C17_GreedyRepetition ==
    /\ (/\ ci <= Len(calls)
        /\ calls[ci].pattern \in {<< "a", "*" >>, << "a", "+" >>}
        /\ pc # "call") =>
           machine.transitions[MinId(StateIds(machine)) + 1][1].target
               = MinId(StateIds(machine))
    /\ \A i \in Finished :
           (/\ calls[i].pattern \in {<< "a", "*" >>, << "a", "+" >>}
            /\ outcomes[i].result = "true") =>
               outcomes[i].cursor.index
                   = RunEnd(calls[i].text,
                            outcomes[i].attempts[Len(outcomes[i].attempts)])

\* the text w b w of ^(a*)b\1$: a run w of a's (either case), one b, and
\* the same run again, character for character
IsRunBRun(t) ==
    /\ Len(t) % 2 = 1
    /\ LET n == (Len(t) - 1) \div 2
       IN  /\ eq_ignore_ascii_case(t[n + 1], "b")
           /\ \A k \in 1..n : eq_ignore_ascii_case(t[k], "a") /\ t[n + 1 + k] = t[k]

C19_RepeatableMatching ==
    /\ (ci <= Len(calls) /\ calls[ci].op = "again" /\ pc = "while"
            /\ attempts = << >>) =>
           cursor = Cursor_new
    /\ \A i \in Finished :
           calls[i].op = "again" =>
               /\ outcomes[i].result = outcomes[i - 1].result
               /\ outcomes[i].attempts[1] = 0

\* the targets of the transitions of the states ids of machine m
Targets(m, ids) ==
    UNION {{m.transitions[id][k].target : k \in 1..Len(m.transitions[id])} : id \in ids}

RECURSIVE ReachableFrom(_, _)
\* the states of m that can be reached from the states seen
ReachableFrom(m, seen) ==
    IF Targets(m, seen) \subseteq seen THEN seen
    ELSE ReachableFrom(m, seen \cup Targets(m, seen))

IsLeafState(m, id) ==
    \E k \in 1..Len(m.transitions[id]) : m.transitions[id][k].condition.name # "epsilon"

WellFormed(m) ==
    /\ \A id \in StateIds(m) :
           /\ IsLeafState(m, id) => Len(m.transitions[id]) = 1
           /\ Len(m.transitions[id]) >= 2 =>
                  \A k \in 1..Len(m.transitions[id]) :
                      m.transitions[id][k].condition.name = "epsilon"
    /\ m.fsm.end \in StateIds(m) /\ m.transitions[m.fsm.end] = << >>
    /\ \A id \in ReachableFrom(m, {m.fsm.start}) :
           id \in StateIds(m) /\ (id # m.fsm.end => Len(m.transitions[id]) >= 1)

\* C20: in every compiled automaton a state with a leaf transition has
\* exactly that one transition, a state with two or more transitions has
\* only epsilon transitions, the outermost end state has none and every
\* other reachable state has at least one; so try_match never evaluates a
\* transition of a state after a transition of that state that is not an
\* epsilon.
C20_AutomatonStructure ==
    /\ machine # NoMachine => WellFormed(machine)
    /\ \A i \in Finished :
           outcomes[i].machine # NoMachine => WellFormed(outcomes[i].machine)
    /\ (pc = "loop" /\ top.ti <= Len(machine.transitions[top.state])) =>
           \A k \in 1..(top.ti - 1) :
               machine.transitions[top.state][k].condition.name = "epsilon"

\* try_match is about to evaluate the second transition of a state, in a
\* machine that also has a state with a leaf transition
C20_Witness ==
    /\ pc = "loop"
    /\ top.ti = 2
    /\ Len(machine.transitions[top.state]) >= 2
    /\ \E id \in StateIds(machine) : IsLeafState(machine, id)

====
